---- MODULE Spec2Model ----
(***************************************************************************)
(* State-machine model of the blog REST backend (blog_api/app/routes.py).  *)
(* The store holds three tables (users, blog posts, comments); every       *)
(* handler is one atomic action that reads a request, runs the handler     *)
(* body against the store and leaves the request and the response behind.  *)
(***************************************************************************)
EXTENDS Integers, FiniteSets, Sequences, TLC

VARIABLES users, posts, comments, now, held, req, resp

vars == <<users, posts, comments, now, held, req, resp>>
store == <<users, posts, comments>>

(***************************************************************************)
(* Bounds of the model.                                                    *)
(***************************************************************************)
MaxUsers == 2
MaxPostId == 2
MaxCommentId == 1
MaxTime == 1

\* timedelta(days=1) of login, in clock ticks of one day
ExpiresDelta == 1

\* the registration forms that clients submit, and what login is tried with
RegistrationForms ==
    {[username |-> "a", email |-> "a@x.com", password |-> "pw"],
     [username |-> "b", email |-> "b@x.com", password |-> "xx"]}
Usernames == {"a", "b"}
Passwords == {"pw", "xx"}

UserIds == 1..MaxUsers
PostIds == 1..MaxPostId
CommentIds == 1..MaxCommentId

(***************************************************************************)
(* Request bodies: JSON objects, as functions from field names to values.  *)
(* A field that is absent from the object is absent from the DOMAIN.       *)
(***************************************************************************)
NoBody == [f \in {} |-> ""]

FullPostBody == [title |-> "T1", content |-> "C1"]

\* the second body also carries a field that the handlers do not read
PostBodies ==
    {FullPostBody, [title |-> "T2", content |-> "C2", author_id |-> 2],
     [title |-> "T2"], [content |-> "C2"]}

FullCommentBody == [content |-> "C1"]

CommentBodies == {FullCommentBody, [content |-> "C2"], NoBody}

(***************************************************************************)
(* bcrypt: a one-way hash and its verification.                            *)
(***************************************************************************)
generate_password_hash(password) == <<"$2b$", password>>

\* a verification that accepts every password
check_password_hash_any(pw_hash, password) == pw_hash[1] = "$2b$"

check_password_hash(pw_hash, password) == pw_hash = generate_password_hash(password)

(***************************************************************************)
(* Bearer tokens.  A credential is what the Authorization header carries.  *)
(***************************************************************************)
NoCred == [kind |-> "missing", sub |-> 0, exp |-> 0]

create_access_token(identity, expires_delta) ==
    [kind |-> "jwt", sub |-> identity, exp |-> now + expires_delta]

\* what a client can put in the header: nothing, garbage, a token that the
\* server did not sign, or the token it got from login
Credentials ==
    {NoCred, [kind |-> "malformed", sub |-> 0, exp |-> 0]}
    \cup {[kind |-> "badsig", sub |-> 1, exp |-> now + ExpiresDelta]}
    \cup (IF held.kind = "jwt" THEN {held} ELSE {})

\* a verification that does not look at the expiry
jwt_required_no_expiry(cred) ==
    CASE cred.kind = "missing" -> 401
      [] cred.kind = "malformed" -> 422
      [] cred.kind = "badsig" -> 422
      [] OTHER -> 0

\* jwt_required(): the status of the rejection, or 0 when the token verifies
jwt_required(cred) ==
    CASE cred.kind = "missing" -> 401
      [] cred.kind = "malformed" -> 422
      [] cred.kind = "badsig" -> 422
      [] cred.kind = "jwt" /\ cred.exp <= now -> 401
      [] OTHER -> 0

get_jwt_identity(cred) == cred.sub

(***************************************************************************)
(* The store.  A table is a function from the ids of its rows to the rows. *)
(***************************************************************************)
EmptyTable == << >>

\* primary keys: the store assigns an id above every id in the table (the
\* largest id plus one, or the next value of a sequence, which may skip)
FreeIds(table, ids) == {i \in ids : \A j \in DOMAIN table : j < i}

\* the column default of created_at: the time of the insert
created_at_default == now

\* the unique constraint on User.username, checked at the commit
username_taken(username) == \E u \in DOMAIN users : users[u].username = username

\* Comment.post_id is not checked against the posts at the commit
foreign_key_ok(post_id) == TRUE

\* what the delete of a post does to the comments table: nothing
on_delete_post(table, post_id) == table

\* db.session.add(row); db.session.commit()
insert(table, id, row) == table @@ (id :> row)

\* db.session.delete(row); db.session.commit()
delete(table, id) == [i \in DOMAIN table \ {id} |-> table[i]]

\* User.query.filter_by(username=...): the ids of the matching rows
filter_by_username(username) == {u \in DOMAIN users : users[u].username = username}

(***************************************************************************)
(* Requests and responses.                                                 *)
(***************************************************************************)
Request(op, cred, post_id, comment_id, data) ==
    [op |-> op, cred |-> cred, post_id |-> post_id, comment_id |-> comment_id,
     data |-> data]

NoRequest == Request("none", NoCred, 0, 0, NoBody)

Response(status, body) == [status |-> status, body |-> body]

NoResponse == Response(0, NoBody)

jsonify_message(message) == [message |-> message]

\* werkzeug's answer to get_or_404 on an absent row
NotFound == Response(404, jsonify_message("Not Found"))

\* Flask's answer to an exception that no handler catches
InternalServerError == Response(500, jsonify_message("Internal Server Error"))

\* the answer of jwt_required() to a request it turns away
Rejected(status) == Response(status, [msg |-> "rejected"])

user_view(id, user) ==
    [id |-> id, username |-> user.username, email |-> user.email,
     created_at |-> user.created_at]

post_view(id, post) ==
    [id |-> id, title |-> post.title, content |-> post.content,
     author_id |-> post.author_id, created_at |-> post.created_at]

comment_view(id, comment) ==
    [id |-> id, content |-> comment.content, author_id |-> comment.author_id,
     created_at |-> comment.created_at]

(***************************************************************************)
(* User management.                                                        *)
(***************************************************************************)
\* .first(): the first matching row in primary-key order, 0 for None
first(ids) == IF ids = {} THEN 0 ELSE CHOOSE i \in ids : \A j \in ids : i <= j

\* POST /register
register(data) ==
    LET hashed_password == generate_password_hash(data.password)
        new_user == [username |-> data.username, email |-> data.email,
                     password_hash |-> hashed_password, created_at |-> created_at_default]
    IN  /\ req' = Request("register", NoCred, 0, 0, data)
        /\ IF username_taken(data.username)
           THEN \* the IntegrityError of the commit is not caught
                /\ resp' = InternalServerError
                /\ users' = users
           ELSE \E id \in FreeIds(users, UserIds) :
                /\ users' = insert(users, id, new_user)
                /\ resp' = Response(201, jsonify_message("User registered successfully!"))
        /\ UNCHANGED <<posts, comments, now, held>>

\* the body of login: the response to a username and a password
login_response(data) ==
    LET user == first(filter_by_username(data.username))
    IN  IF user # 0 /\ check_password_hash(users[user].password_hash, data.password)
        THEN Response(200, [access_token |-> create_access_token(user, ExpiresDelta)])
        ELSE Response(401, jsonify_message("Invalid username or password"))

\* POST /login; the client keeps the token it is given
login(data) ==
    /\ req' = Request("login", NoCred, 0, 0, data)
    /\ resp' = login_response(data)
    /\ held' = IF resp'.status = 200 THEN resp'.body.access_token ELSE held
    /\ UNCHANGED <<users, posts, comments, now>>

\* the body of get_user, for the identity of a verified token
get_user_response(current_user_id) ==
    IF current_user_id \notin DOMAIN users
    THEN \* User.query.get gives None and user.id raises AttributeError
         InternalServerError
    ELSE Response(200, user_view(current_user_id, users[current_user_id]))

\* GET /user
get_user(cred) ==
    LET gate == jwt_required(cred)
    IN  /\ req' = Request("get_user", cred, 0, 0, NoBody)
        /\ resp' = IF gate # 0 THEN Rejected(gate)
                   ELSE get_user_response(get_jwt_identity(cred))
        /\ UNCHANGED <<users, posts, comments, now, held>>

(***************************************************************************)
(* Blog post management.  The body of a handler is an operator that gives  *)
(* the response and the table as the handler leaves it.                    *)
(***************************************************************************)
Result(response, table) == [resp |-> response, table |-> table]

\* a handler that takes the author from the body when the body names one
create_post_body_author_from_body(table, id, identity, data) ==
    IF "title" \notin DOMAIN data \/ "content" \notin DOMAIN data
    THEN Result(InternalServerError, table)
    ELSE Result(Response(201, jsonify_message("Blog post created successfully!")),
                insert(table, id, [title |-> data.title, content |-> data.content,
                                   author_id |-> IF "author_id" \in DOMAIN data
                                                 THEN data.author_id ELSE identity,
                                   created_at |-> created_at_default]))

\* lines 92-96: a KeyError on a missing field is not caught
create_post_body(table, id, identity, data) ==
    IF "title" \notin DOMAIN data \/ "content" \notin DOMAIN data
    THEN Result(InternalServerError, table)
    ELSE Result(Response(201, jsonify_message("Blog post created successfully!")),
                insert(table, id, [title |-> data.title, content |-> data.content,
                                   author_id |-> identity, created_at |-> created_at_default]))

\* POST /posts
create_post(cred, data) ==
    LET gate == jwt_required(cred)
    IN  /\ req' = Request("create_post", cred, 0, 0, data)
        /\ IF gate # 0
           THEN resp' = Rejected(gate) /\ posts' = posts
           ELSE \E id \in FreeIds(posts, PostIds) :
                LET r == create_post_body(posts, id, get_jwt_identity(cred), data)
                IN  resp' = r.resp /\ posts' = r.table
        /\ UNCHANGED <<users, comments, now, held>>

\* the rows of BlogPost.query.all(), serialised; the store fixes no order
\* and the ids make the entries distinct, so the list is carried as a set
posts_list == {post_view(id, posts[id]) : id \in DOMAIN posts}

\* GET /posts
get_all_posts ==
    /\ req' = Request("get_all_posts", NoCred, 0, 0, NoBody)
    /\ resp' = Response(200, [posts |-> posts_list])
    /\ UNCHANGED <<users, posts, comments, now, held>>

get_post_response(post_id) ==
    IF post_id \notin DOMAIN posts THEN NotFound
    ELSE Response(200, post_view(post_id, posts[post_id]))

\* GET /posts/<post_id>
get_post(post_id) ==
    /\ req' = Request("get_post", NoCred, post_id, 0, NoBody)
    /\ resp' = get_post_response(post_id)
    /\ UNCHANGED <<users, posts, comments, now, held>>

\* assignments that leave the content as it was
assign_post_title_only(post, data) ==
    IF "title" \notin DOMAIN data
    THEN [raised |-> TRUE, obj |-> post]
    ELSE IF "content" \notin DOMAIN data
    THEN [raised |-> TRUE, obj |-> [post EXCEPT !.title = data.title]]
    ELSE [raised |-> FALSE, obj |-> [post EXCEPT !.title = data.title]]

\* lines 170-171 on the session's copy of the row: the copy as the
\* assignments leave it, and whether a KeyError stopped them
assign_post(post, data) ==
    IF "title" \notin DOMAIN data
    THEN [raised |-> TRUE, obj |-> post]
    ELSE IF "content" \notin DOMAIN data
    THEN [raised |-> TRUE, obj |-> [post EXCEPT !.title = data.title]]
    ELSE [raised |-> FALSE,
          obj |-> [post EXCEPT !.title = data.title, !.content = data.content]]

\* a handler whose assignments reach the table as they are made
update_post_body_autocommit(table, post_id, data) ==
    IF post_id \notin DOMAIN table THEN Result(NotFound, table)
    ELSE LET s == assign_post(table[post_id], data)
         IN  IF s.raised
             THEN Result(InternalServerError, [table EXCEPT ![post_id] = s.obj])
             ELSE Result(Response(200, jsonify_message("Blog post updated successfully!")),
                         [table EXCEPT ![post_id] = s.obj])

\* lines 168-173: only db.session.commit() writes the session's copy to the
\* table; a handler that raises leaves the session to be discarded
update_post_body(table, post_id, data) ==
    IF post_id \notin DOMAIN table THEN Result(NotFound, table)
    ELSE LET s == assign_post(table[post_id], data)
         IN  IF s.raised THEN Result(InternalServerError, table)
             ELSE Result(Response(200, jsonify_message("Blog post updated successfully!")),
                         [table EXCEPT ![post_id] = s.obj])

\* PUT /posts/<post_id>
update_post(cred, post_id, data) ==
    LET gate == jwt_required(cred)
        r == update_post_body(posts, post_id, data)
    IN  /\ req' = Request("update_post", cred, post_id, 0, data)
        /\ resp' = IF gate # 0 THEN Rejected(gate) ELSE r.resp
        /\ posts' = IF gate # 0 THEN posts ELSE r.table
        /\ UNCHANGED <<users, comments, now, held>>

\* a handler that answers 200 without the delete
delete_post_body_no_delete(table, post_id) ==
    IF post_id \notin DOMAIN table THEN Result(NotFound, table)
    ELSE Result(Response(200, jsonify_message("Blog post deleted successfully!")), table)

\* lines 186-189
delete_post_body(table, post_id) ==
    IF post_id \notin DOMAIN table THEN Result(NotFound, table)
    ELSE Result(Response(200, jsonify_message("Blog post deleted successfully!")),
                delete(table, post_id))

\* a handler that deletes the comments of the post with it
delete_post_cascade(cred, post_id) ==
    LET gate == jwt_required(cred)
        r == delete_post_body(posts, post_id)
    IN  /\ req' = Request("delete_post", cred, post_id, 0, NoBody)
        /\ resp' = IF gate # 0 THEN Rejected(gate) ELSE r.resp
        /\ posts' = IF gate # 0 THEN posts ELSE r.table
        /\ comments' = IF gate # 0 \/ r.resp.status # 200 THEN comments
                       ELSE [c \in {k \in DOMAIN comments : comments[k].post_id # post_id}
                                |-> comments[c]]
        /\ UNCHANGED <<users, now, held>>

\* DELETE /posts/<post_id>; the handler deletes the post row alone
delete_post(cred, post_id) ==
    LET gate == jwt_required(cred)
        r == delete_post_body(posts, post_id)
    IN  /\ req' = Request("delete_post", cred, post_id, 0, NoBody)
        /\ resp' = IF gate # 0 THEN Rejected(gate) ELSE r.resp
        /\ posts' = IF gate # 0 THEN posts ELSE r.table
        /\ comments' = IF gate # 0 \/ r.resp.status # 200 THEN comments
                       ELSE on_delete_post(comments, post_id)
        /\ UNCHANGED <<users, now, held>>

(***************************************************************************)
(* Comment management.                                                     *)
(***************************************************************************)
\* lines 207-211: no lookup of the post; a KeyError is not caught
add_comment_body(table, id, identity, post_id, data) ==
    IF "content" \notin DOMAIN data \/ ~foreign_key_ok(post_id)
    THEN Result(InternalServerError, table)
    ELSE Result(Response(201, jsonify_message("Comment added successfully!")),
                insert(table, id, [content |-> data.content, author_id |-> identity,
                                   post_id |-> post_id, created_at |-> created_at_default]))

\* POST /posts/<post_id>/comments
add_comment(cred, post_id, data) ==
    LET gate == jwt_required(cred)
    IN  /\ req' = Request("add_comment", cred, post_id, 0, data)
        /\ IF gate # 0
           THEN resp' = Rejected(gate) /\ comments' = comments
           ELSE \E id \in FreeIds(comments, CommentIds) :
                LET r == add_comment_body(comments, id, get_jwt_identity(cred), post_id, data)
                IN  resp' = r.resp /\ comments' = r.table
        /\ UNCHANGED <<users, posts, now, held>>

\* Comment.query.filter_by(post_id=post_id).all(), serialised (a set, as
\* for posts_list)
comments_list(post_id) ==
    {comment_view(id, comments[id]) : id \in {c \in DOMAIN comments : comments[c].post_id = post_id}}

\* GET /posts/<post_id>/comments
get_comments(post_id) ==
    /\ req' = Request("get_comments", NoCred, post_id, 0, NoBody)
    /\ resp' = Response(200, [comments |-> comments_list(post_id)])
    /\ UNCHANGED <<users, posts, comments, now, held>>

Mismatch == Response(400, jsonify_message("Comment does not belong to the specified post"))

\* lines 257-263
update_comment_body(table, post_id, comment_id, data) ==
    IF comment_id \notin DOMAIN table THEN Result(NotFound, table)
    ELSE IF table[comment_id].post_id # post_id THEN Result(Mismatch, table)
    ELSE IF "content" \notin DOMAIN data THEN Result(InternalServerError, table)
    ELSE Result(Response(200, jsonify_message("Comment updated successfully!")),
                [table EXCEPT ![comment_id].content = data.content])

\* PUT /posts/<post_id>/comments/<comment_id>
update_comment(cred, post_id, comment_id, data) ==
    LET gate == jwt_required(cred)
        r == update_comment_body(comments, post_id, comment_id, data)
    IN  /\ req' = Request("update_comment", cred, post_id, comment_id, data)
        /\ resp' = IF gate # 0 THEN Rejected(gate) ELSE r.resp
        /\ comments' = IF gate # 0 THEN comments ELSE r.table
        /\ UNCHANGED <<users, posts, now, held>>

\* a handler without the check of the path's post id
delete_comment_body_unchecked(table, post_id, comment_id) ==
    IF comment_id \notin DOMAIN table THEN Result(NotFound, table)
    ELSE Result(Response(200, jsonify_message("Comment deleted successfully!")),
                delete(table, comment_id))

\* lines 278-283
delete_comment_body(table, post_id, comment_id) ==
    IF comment_id \notin DOMAIN table THEN Result(NotFound, table)
    ELSE IF table[comment_id].post_id # post_id THEN Result(Mismatch, table)
    ELSE Result(Response(200, jsonify_message("Comment deleted successfully!")),
                delete(table, comment_id))

\* DELETE /posts/<post_id>/comments/<comment_id>
delete_comment(cred, post_id, comment_id) ==
    LET gate == jwt_required(cred)
        r == delete_comment_body(comments, post_id, comment_id)
    IN  /\ req' = Request("delete_comment", cred, post_id, comment_id, NoBody)
        /\ resp' = IF gate # 0 THEN Rejected(gate) ELSE r.resp
        /\ comments' = IF gate # 0 THEN comments ELSE r.table
        /\ UNCHANGED <<users, posts, now, held>>

(***************************************************************************)
(* The environment: time passes, and the test fixture drops the tables     *)
(* while the signing key, and so the tokens already issued, stay.          *)
(***************************************************************************)
Tick ==
    /\ now < MaxTime
    /\ now' = now + 1
    /\ req' = NoRequest
    /\ resp' = NoResponse
    /\ UNCHANGED <<users, posts, comments, held>>

\* db.session.remove(); db.drop_all(); then db.create_all() of the next test
drop_all ==
    /\ users' = EmptyTable
    /\ posts' = EmptyTable
    /\ comments' = EmptyTable
    /\ req' = NoRequest
    /\ resp' = NoResponse
    /\ UNCHANGED <<now, held>>

(***************************************************************************)
(* Specifications.                                                         *)
(***************************************************************************)
Init ==
    /\ users = EmptyTable
    /\ posts = EmptyTable
    /\ comments = EmptyTable
    /\ now = 0
    /\ held = NoCred
    /\ req = NoRequest
    /\ resp = NoResponse

\* the requests that clients send, for the credentials and the JSON bodies
\* they may pick from
Requests(creds, post_bodies, comment_bodies) ==
    \/ \E d \in RegistrationForms : register(d)
    \/ \E u \in Usernames, p \in Passwords : login([username |-> u, password |-> p])
    \/ \E c \in creds : get_user(c)
    \/ \E c \in creds, d \in post_bodies : create_post(c, d)
    \/ get_all_posts
    \/ \E p \in PostIds : get_post(p)
    \/ \E c \in creds, p \in PostIds, d \in post_bodies : update_post(c, p, d)
    \/ \E c \in creds, p \in PostIds : delete_post(c, p)
    \/ \E c \in creds, p \in PostIds, d \in comment_bodies : add_comment(c, p, d)
    \/ \E p \in PostIds : get_comments(p)
    \/ \E c \in creds, p \in PostIds, k \in CommentIds, d \in comment_bodies :
          update_comment(c, p, k, d)
    \/ \E c \in creds, p \in PostIds, k \in CommentIds : delete_comment(c, p, k)

\* clients that send the header they have (none before the first login, then
\* the token of the last login, fresh or expired) with any of the bodies
Next == Requests({held}, PostBodies, CommentBodies) \/ Tick

Spec == Init /\ [][Next]_vars

\* clients that send any header, with the well-formed bodies
NextAuth == Requests(Credentials, {FullPostBody}, {FullCommentBody}) \/ Tick

SpecAuth == Init /\ [][NextAuth]_vars

\* the API as the test suite drives it: the header the client has, the
\* well-formed bodies, and the tables dropped between tests
NextFixture == Requests({held}, {FullPostBody}, {FullCommentBody}) \/ Tick \/ drop_all

SpecFixture == Init /\ [][NextFixture]_vars

(***************************************************************************)
(* Properties.  A step that handles a request leaves the request in req'   *)
(* and the response in resp'; the unprimed variables are the state that    *)
(* the handler found.                                                      *)
(***************************************************************************)
ProtectedOps ==
    {"get_user", "create_post", "update_post", "delete_post", "add_comment",
     "update_comment", "delete_comment"}

\* a token that the server signed and that has not expired
Authenticated(cred) == cred.kind = "jwt" /\ now < cred.exp

\* C1: for an existing comment stored under post P, an authenticated
\* update_comment (with a content) or delete_comment through path post id P
\* answers 200 and overwrites the content / removes the comment; through a
\* path post id other than P it answers 400 and leaves the comments table as
\* it was.  Whether post P or the path's post exists plays no part.
C1_CommentPathCheck ==
    [][(/\ req'.op \in {"update_comment", "delete_comment"}
        /\ Authenticated(req'.cred)
        /\ req'.comment_id \in DOMAIN comments
        /\ (req'.op = "update_comment" => "content" \in DOMAIN req'.data))
       => LET c == req'.comment_id
              old == comments[c]
          IN  IF req'.post_id = old.post_id
              THEN /\ resp'.status = 200
                   /\ IF req'.op = "update_comment"
                      THEN comments' = [comments EXCEPT ![c] =
                               [content |-> req'.data.content, author_id |-> old.author_id,
                                post_id |-> old.post_id, created_at |-> old.created_at]]
                      ELSE /\ c \notin DOMAIN comments'
                           /\ \A k \in DOMAIN comments \ {c} :
                                 k \in DOMAIN comments' /\ comments'[k] = comments[k]
                   /\ posts' = posts /\ users' = users
              ELSE /\ resp'.status = 400
                   /\ store' = store]_vars

\* C1 witness: a delete through the wrong path was refused for a comment
\* whose own post does not exist
C1_Witness ==
    /\ req.op = "delete_comment"
    /\ resp.status = 400
    /\ req.comment_id \in DOMAIN comments
    /\ comments[req.comment_id].post_id \notin DOMAIN posts
    /\ req.post_id \in DOMAIN posts

RegisteredWith(user, password) ==
    \E f \in RegistrationForms :
        f.username = user.username /\ f.email = user.email /\ f.password = password

\* C3: no step changes or removes a user, and a login answers 200 with a
\* token whose subject is the id of the user registered under that username
\* with that password (expiring one day later), and answers 401 without a
\* token when the username is unknown or the password is another one.
C3_Login ==
    [][/\ \A u \in DOMAIN users : u \in DOMAIN users' /\ users'[u] = users[u]
       /\ req'.op = "login" =>
            LET known == {u \in DOMAIN users :
                             /\ users[u].username = req'.data.username
                             /\ RegisteredWith(users[u], req'.data.password)}
            IN  IF known # {}
                THEN /\ resp'.status = 200
                     /\ resp'.body.access_token.kind = "jwt"
                     /\ resp'.body.access_token.sub \in known
                     /\ resp'.body.access_token.exp = now + ExpiresDelta
                     /\ Cardinality(known) = 1
                ELSE /\ resp'.status = 401
                     /\ "access_token" \notin DOMAIN resp'.body
                     /\ held' = held]_vars

\* C3 witness: the second user logged in after posts and comments were made
C3_Witness ==
    /\ req.op = "login"
    /\ resp.status = 200
    /\ resp.body.access_token.sub = 2
    /\ posts # EmptyTable
    /\ comments # EmptyTable

\* C4: a create_post that succeeds adds one post, under a new id, for which
\* get_post answers 200 with the title and the content of the request and
\* with author_id equal to the subject of the token (not a value of the
\* body) and which is in the list of get_all_posts; and no step changes the
\* author_id of a post that stays.
C4_CreateThenGet ==
    [][/\ (req'.op = "create_post" /\ resp'.status = 201) =>
            \E id \in DOMAIN posts' \ DOMAIN posts :
               /\ DOMAIN posts' = DOMAIN posts \cup {id}
               /\ Authenticated(req'.cred)
               /\ get_post_response(id)'.status = 200
               /\ get_post_response(id)'.body.id = id
               /\ get_post_response(id)'.body.title = req'.data.title
               /\ get_post_response(id)'.body.content = req'.data.content
               /\ get_post_response(id)'.body.author_id = req'.cred.sub
               /\ get_post_response(id)'.body \in posts_list'
       /\ (req'.op = "get_post" /\ req'.post_id \in DOMAIN posts) =>
               /\ resp'.status = 200
               /\ resp'.body = [id |-> req'.post_id,
                                title |-> posts[req'.post_id].title,
                                content |-> posts[req'.post_id].content,
                                author_id |-> posts[req'.post_id].author_id,
                                created_at |-> posts[req'.post_id].created_at]
       /\ req'.op # "create_post" =>
            \A id \in DOMAIN posts \cap DOMAIN posts' :
               posts'[id].author_id = posts[id].author_id]_vars

\* C4 witness: a post was created from a body that names another author
C4_Witness ==
    /\ req.op = "create_post"
    /\ resp.status = 201
    /\ "author_id" \in DOMAIN req.data
    /\ req.data.author_id # req.cred.sub

HasFields(data, fields) == fields \subseteq DOMAIN data

\* C5: an authenticated update_post with a title and a content, by the
\* author or by anyone else, answers 200 on an existing post and sets its
\* title and content to the payload, leaving its id, author_id and
\* created_at, every other post, every comment and every user as they were;
\* the same payload applied again gives the same table.  On an absent id an
\* authenticated update_post answers 404 and changes nothing.
C5_UpdatePost ==
    [][(req'.op = "update_post" /\ Authenticated(req'.cred))
       => LET p == req'.post_id
              d == req'.data
          IN  IF p \notin DOMAIN posts
              THEN resp'.status = 404 /\ store' = store
              ELSE HasFields(d, {"title", "content"}) =>
                   /\ resp'.status = 200
                   /\ posts' = [posts EXCEPT ![p] =
                          [title |-> d.title, content |-> d.content,
                           author_id |-> posts[p].author_id,
                           created_at |-> posts[p].created_at]]
                   /\ comments' = comments /\ users' = users
                   /\ update_post_body(posts', p, d).table = posts'
                   /\ update_post_body(posts', p, d).resp.status = 200]_vars

\* C5 witness: a post was rewritten by a user who is not its author, at a
\* later time than its creation, while another post and a comment exist
C5_Witness ==
    /\ req.op = "update_post"
    /\ resp.status = 200
    /\ posts[req.post_id].author_id # req.cred.sub
    /\ posts[req.post_id].created_at # now
    /\ Cardinality(DOMAIN posts) = 2
    /\ comments # EmptyTable

\* C6: an authenticated delete_post answers 200 on an existing post and
\* removes that post and no other; on an absent id it answers 404 and
\* removes nothing.  A post id that is absent stays absent until a
\* create_post, and for as long as it is absent get_post and authenticated
\* update_post and delete_post answer 404 on it, and the list of
\* get_all_posts has exactly the posts that exist.
C6_DeletePost ==
    [][/\ (req'.op = "delete_post" /\ Authenticated(req'.cred)) =>
            IF req'.post_id \in DOMAIN posts
            THEN /\ resp'.status = 200
                 /\ DOMAIN posts' = DOMAIN posts \ {req'.post_id}
                 /\ \A q \in DOMAIN posts' : posts'[q] = posts[q]
                 /\ \A p \in PostIds :
                       p = req'.post_id => get_post_response(p)'.status = 404
                 /\ \A v \in posts_list' : v.id # req'.post_id
            ELSE resp'.status = 404 /\ store' = store
       /\ \A p \in PostIds \ DOMAIN posts :
            /\ req'.op # "create_post" => p \notin DOMAIN posts'
            /\ (req'.post_id = p /\ \/ req'.op = "get_post"
                                    \/ /\ req'.op \in {"update_post", "delete_post"}
                                       /\ Authenticated(req'.cred))
               => resp'.status = 404 /\ store' = store
       /\ req'.op = "get_all_posts" =>
            /\ resp'.status = 200
            /\ {v.id : v \in resp'.body.posts} = DOMAIN posts]_vars

\* C6 witness: a post was deleted by a user who is not its author and the
\* other post is still there
C6_Witness ==
    /\ req.op = "delete_post"
    /\ resp.status = 200
    /\ req.post_id \notin DOMAIN posts
    /\ posts # EmptyTable
    /\ \A q \in DOMAIN posts : posts[q].author_id # req.cred.sub

\* C7: an authenticated create_post whose body lacks the title or the
\* content answers 400
C7_MissingFieldBadRequest ==
    (/\ req.op = "create_post"
     /\ Authenticated(req.cred)
     /\ ~HasFields(req.data, {"title", "content"}))
    => resp.status = 400

\* C8: get_user with a valid token answers 404 when the subject is no stored
\* user, and otherwise 200 with id, username, email and created_at of that
\* user and nothing else
C8_GetUser ==
    (req.op = "get_user" /\ Authenticated(req.cred))
    => IF req.cred.sub \notin DOMAIN users
       THEN resp.status = 404
       ELSE /\ resp.status = 200
            /\ resp.body = [id |-> req.cred.sub,
                            username |-> users[req.cred.sub].username,
                            email |-> users[req.cred.sub].email,
                            created_at |-> users[req.cred.sub].created_at]

\* the comments stored under a post id, as get_comments is to list them
CommentsOf(table, post_id) ==
    {[id |-> c, content |-> table[c].content, author_id |-> table[c].author_id,
      created_at |-> table[c].created_at] :
        c \in {k \in DOMAIN table : table[k].post_id = post_id}}

\* C9: a delete_post that succeeds removes the post row and leaves the
\* comments table as it was, so get_comments lists the same comments of the
\* deleted post before and after; get_comments answers 200 with the comments
\* stored under the path's post id, for a post that exists or not; and an
\* authenticated add_comment with a content answers 201 and stores the
\* comment under the path's post id, for a post that exists or not.
C9_NoCascade ==
    [][/\ (req'.op = "delete_post" /\ resp'.status = 200) =>
            /\ comments' = comments
            /\ \A p \in PostIds : comments_list(p)' = comments_list(p)
            /\ DOMAIN posts' = DOMAIN posts \ {req'.post_id}
            /\ req'.post_id \in DOMAIN posts
       /\ req'.op = "get_comments" =>
            /\ resp'.status = 200
            /\ resp'.body.comments = CommentsOf(comments, req'.post_id)
       /\ (/\ req'.op = "add_comment"
           /\ Authenticated(req'.cred)
           /\ "content" \in DOMAIN req'.data) =>
            /\ resp'.status = 201
            /\ \E c \in DOMAIN comments' \ DOMAIN comments :
                  /\ DOMAIN comments' = DOMAIN comments \cup {c}
                  /\ comments'[c] = [content |-> req'.data.content,
                                     author_id |-> req'.cred.sub,
                                     post_id |-> req'.post_id, created_at |-> now]
                  /\ \A k \in DOMAIN comments : comments'[k] = comments[k]]_vars

\* C9 witness: a post was deleted and its comment is still stored
C9_Witness ==
    /\ req.op = "delete_post"
    /\ resp.status = 200
    /\ \E c \in DOMAIN comments : comments[c].post_id = req.post_id

====
